---- MODULE Spec2Model ----
(***************************************************************************)
(* Verification model of the Cantonese voice skill:                         *)
(*   voice_tts.py            bounded, retrying synthesis invoker and the    *)
(*                           process-wide CosyVoice3 instance cache         *)
(*   voice_output_manager.py persisted output toggle and bracket commands   *)
(*   voice_asr.py            transcription wrapper                          *)
(*   voice_integration.py    conversation orchestrator                      *)
(***************************************************************************)
EXTENDS Integers, Sequences, FiniteSets, TLC

\* ---------------------------------------------------------------- bounds
\* Largest retry budget (max_retries) a call is given; budgets are 0..MaxRetries.
MaxRetries == 2
\* Number of threads that each request the engine handle once.
NumRequesters == 3
\* Longest text given to the command parser and the orchestrator.
MaxLen == 2
\* Number of synthesize_speech_fixed calls made one after the other.
MaxCalls == 2

\* ------------------------------------------------------ program constants
\* voice_tts.py:211,217 - the fixed sample rate.
SampleRate == 24000

\* Model directories a caller may name.
Dirs == {"dirA", "dirB"}
NoDir == "none"

\* Worker threads of one synthesize_speech_fixed call: one per attempt.
Workers == 0 .. (MaxRetries - 1)
\* Threads that call _get_cosyvoice_instance directly.
Requesters == 0 .. (NumRequesters - 1)
\* _cosyvoice_instance = None; handles are numbered from 1 in construction order.
NoHandle == 0
\* Holder of _instance_lock when nobody holds it.
Free == -1

\* Values of result['error'].
ErrNone == "None"
ErrTimeout == "Synthesis timeout"
ErrEmpty == ""
ErrMsg == "engine error"
ErrNoAudio == "no audio data"
ErrTritonRaw == "terminate called without an active exception"
ErrTritonNice == "Triton kernel crash"
ErrThread == "cannot start thread"
\* Messages str(e) of the exceptions the engine can raise.
EngineMsgs == {ErrMsg, ErrEmpty, ErrTritonRaw}

VARIABLES
    pc,             \* position of the thread that called synthesize_speech_fixed
    max_retries,    \* the call's retry budget
    model_dir,      \* the call's model directory
    retry,          \* loop variable of the retry loop
    result,         \* the result dict shared by the caller and every worker
    ret,            \* the result as it was when the call returned (NoRet before)
    thr,            \* the threads: worker of attempt i, or a handle requester
    outFile,        \* output_file: 0 when not written, else samples / SampleRate
    declared,       \* attempts whose worker was found alive after the wait
    slept,          \* number of backoff sleeps of the call
    startFailed,    \* some thread.start() of the call raised
    inst,           \* _cosyvoice_instance (NoHandle for None)
    inst_dir,       \* _model_dir
    lock,           \* holder of _instance_lock
    built,          \* built[h] = directory handle h was constructed for
    ctorCalls,      \* number of CosyVoice3(...) calls made
    enabled,        \* VoiceOutputManager.state['enabled']
    file,           \* the persisted toggle file: "absent", "corrupt", "on", "off"
    input,          \* the text the caller of the core passes in this run
    op,             \* the last public operation of the core and how it ended
    prev,           \* "enable" or "disable" when the operation before the last
                    \* one was that call on the store, else "none"
    refs,           \* refs[d]: the reference audio file of directory d is
                    \* "absent", a "placeholder" or "present" (put there by the user)
    refWrites,      \* refWrites[d]: times the placeholder of d was written
    calls           \* number of synthesize_speech_fixed calls made

vars == <<pc, max_retries, model_dir, retry, result, ret, thr, outFile,
          declared, slept, startFailed, inst, inst_dir, lock, built, ctorCalls,
          enabled, file, input, op, prev, refs, refWrites, calls>>

callVars == <<pc, max_retries, model_dir, retry, result, ret, outFile,
              declared, slept, startFailed>>
cacheVars == <<inst, inst_dir, lock, built, ctorCalls>>
storeVars == <<enabled, file, input, op, prev>>
bootVars == <<refs, refWrites, calls>>

NoRet == [none |-> TRUE]

\* voice_tts.py:146-154
InitResult ==
    [success |-> FALSE, error |-> ErrNone, timed_out |-> FALSE,
     retry_count |-> 0, duration |-> 0]

IdleThread == [st |-> "none", role |-> "none", dir |-> NoDir, h |-> NoHandle, e |-> ErrNone]

\* threading.Thread.is_alive(): started and _synthesize not yet left.
IsAlive(t) == thr[t].st \notin {"none", "done_ok", "done_exc", "got", "failed"}

\* ------------------------------------------------- _get_cosyvoice_instance
\* Mutant: the hit test forgets to compare the directory.
CacheHitAnyDir(d) == inst # NoHandle

\* voice_tts.py:72 - the cache hit test.
CacheHit(d) == inst # NoHandle /\ inst_dir = d

\* Mutant: the accessor does not take the lock.
LockIgnored == TRUE

\* voice_tts.py:70 - "with _instance_lock" blocks while another thread holds it.
LockAvailable == lock = Free

\* Where a thread goes once it has its handle / once the accessor raised.
AfterHandle(t) == IF thr[t].role = "worker" THEN "infer" ELSE "got"
AfterRaise(t) == IF thr[t].role = "worker" THEN "exc" ELSE "failed"

\* voice_tts.py:70-73 - take the lock; on a hit return the cached instance
\* (leaving the with-block releases the lock), otherwise start constructing
\* while holding the lock.
AcquireLock(t) ==
    /\ thr[t].st = "start"
    /\ LockAvailable
    /\ IF CacheHit(thr[t].dir)
       THEN /\ thr' = [thr EXCEPT ![t].st = AfterHandle(t), ![t].h = inst]
            /\ UNCHANGED <<lock, ctorCalls>>
       ELSE /\ thr' = [thr EXCEPT ![t].st = "ctor"]
            /\ lock' = t
            /\ ctorCalls' = ctorCalls + 1
    /\ UNCHANGED <<inst, inst_dir, built, callVars, storeVars, bootVars>>

\* voice_tts.py:80-86 - the constructor returns: cache the new instance and
\* its directory, release the lock, return the instance.
CtorOk(t) ==
    /\ thr[t].st = "ctor"
    /\ LET h == Len(built) + 1 IN
       /\ built' = Append(built, thr[t].dir)
       /\ inst' = h
       /\ inst_dir' = thr[t].dir
       /\ thr' = [thr EXCEPT ![t].st = AfterHandle(t), ![t].h = h]
    /\ lock' = Free
    /\ UNCHANGED <<ctorCalls, callVars, storeVars, bootVars>>

\* voice_tts.py:87-89 - the constructor raises: nothing is cached, the lock is
\* released and the exception leaves the accessor.
CtorRaises(t, m) ==
    /\ thr[t].st = "ctor"
    /\ thr' = [thr EXCEPT ![t].st = AfterRaise(t), ![t].e = m]
    /\ lock' = Free
    /\ UNCHANGED <<inst, inst_dir, built, ctorCalls, callVars, storeVars, bootVars>>

\* voice_tts.py:80 - the constructor never returns; the lock stays held.
CtorHangs(t) ==
    /\ thr[t].st = "ctor"
    /\ thr' = [thr EXCEPT ![t].st = "ctor_hung"]
    /\ UNCHANGED <<cacheVars, callVars, storeVars, bootVars>>

\* ------------------------------------------------------------ _synthesize
\* voice_tts.py:217 - duration = len(audio_data) / 24000; attempt t's audio
\* is modelled as (t + 1) seconds of samples.
AudioLen(t) == (t + 1) * SampleRate
Duration(samples) == samples \div SampleRate

\* voice_tts.py:224-226 - the message recorded for an exception.
ErrorMsg(m) == IF m = ErrTritonRaw THEN ErrTritonNice ELSE m

\* voice_tts.py:172-211 - inference returns a chunk with audio; gain, clip,
\* and sf.write(output_file, ...).
InferOk(t) ==
    /\ thr[t].st = "infer"
    /\ outFile' = Duration(AudioLen(t))
    /\ thr' = [thr EXCEPT ![t].st = "wrote"]
    /\ UNCHANGED <<pc, max_retries, model_dir, retry, result, ret, declared,
                   slept, startFailed, cacheVars, storeVars, bootVars>>

\* voice_tts.py:193-200 - inference returns no chunk with 'tts_speech'.
InferNoChunk(t) ==
    /\ thr[t].st = "infer"
    /\ thr' = [thr EXCEPT ![t].st = "exc", ![t].e = ErrNoAudio]
    /\ UNCHANGED <<callVars, cacheVars, storeVars, bootVars>>

\* voice_tts.py:172-190 - inference raises an exception with message m.
InferRaises(t, m) ==
    /\ thr[t].st = "infer"
    /\ thr' = [thr EXCEPT ![t].st = "exc", ![t].e = m]
    /\ UNCHANGED <<callVars, cacheVars, storeVars, bootVars>>

\* voice_tts.py:172-190 - inference never returns.
InferHangs(t) ==
    /\ thr[t].st = "infer"
    /\ thr' = [thr EXCEPT ![t].st = "hung"]
    /\ UNCHANGED <<callVars, cacheVars, storeVars, bootVars>>

\* What a worker's write to the shared result dict leaves alone.
WorkerFrame ==
    UNCHANGED <<pc, max_retries, model_dir, retry, ret, outFile, declared,
                slept, startFailed, cacheVars, storeVars, bootVars>>

\* voice_tts.py:217 - result['duration'] = len(audio_data) / 24000
WriteDuration(t) ==
    /\ thr[t].st = "wrote"
    /\ result' = [result EXCEPT !.duration = Duration(AudioLen(t))]
    /\ thr' = [thr EXCEPT ![t].st = "w_dur"]
    /\ WorkerFrame

\* voice_tts.py:218-219 - result['success'] = True (output_file is rewritten
\* with the value it already has).
WriteSuccess(t) ==
    /\ thr[t].st = "w_dur"
    /\ result' = [result EXCEPT !.success = TRUE]
    /\ thr' = [thr EXCEPT ![t].st = "w_succ"]
    /\ WorkerFrame

\* voice_tts.py:220 - result['timed_out'] = False; the worker ends.
WriteNotTimedOut(t) ==
    /\ thr[t].st = "w_succ"
    /\ result' = [result EXCEPT !.timed_out = FALSE]
    /\ thr' = [thr EXCEPT ![t].st = "done_ok"]
    /\ WorkerFrame

\* voice_tts.py:222-227 - the handler records the message (its local e is
\* dead afterwards).
WriteError(t) ==
    /\ thr[t].st = "exc"
    /\ result' = [result EXCEPT !.error = ErrorMsg(thr[t].e)]
    /\ thr' = [thr EXCEPT ![t].st = "e_err", ![t].e = ErrNone]
    /\ WorkerFrame

\* voice_tts.py:228-229 - result['success'] = False; the re-raise ends the
\* thread.
WriteFailure(t) ==
    /\ thr[t].st = "e_err"
    /\ result' = [result EXCEPT !.success = FALSE]
    /\ thr' = [thr EXCEPT ![t].st = "done_exc"]
    /\ WorkerFrame

\* ------------------------------------------------ synthesize_speech_fixed
\* Mutant: the loop runs one iteration too many.
LoopRangeInclusive == 0 .. max_retries

\* voice_tts.py:157 - range(max_retries).
LoopRange == 0 .. (max_retries - 1)

\* Mutant: the last retry is recognised one iteration early.
IsLastRetryEarly == retry >= max_retries - 2

\* voice_tts.py:245,262,271 - "retry >= max_retries - 1".
IsLastRetry == retry >= max_retries - 1

\* Mutant: the bootstrap does not look for the file.
RefNeverExists(d) == FALSE

\* voice_tts.py:139 - os.path.exists(reference_audio); the default path is
\* inside the model directory (line 136).
RefExists(d) == refs[d] # "absent"

\* voice_tts.py:139-144 - write one second of silence at the reference path
\* when nothing is there.
Bootstrap(d) ==
    IF RefExists(d)
    THEN UNCHANGED <<refs, refWrites>>
    ELSE /\ refs' = [refs EXCEPT ![d] = "placeholder"]
         /\ refWrites' = [refWrites EXCEPT ![d] = @ + 1]

\* `return result`: the caller receives the shared dict; ret records what it
\* held at that moment.
ReturnResult(r) ==
    /\ pc' = "returned"
    /\ ret' = r

\* voice_tts.py:92-154 - the call: defaults and the initial result.
CallEffect(n, d) ==
    /\ pc = "idle"
    /\ max_retries' = n
    /\ model_dir' = d
    /\ retry' = 0
    /\ result' = InitResult
    /\ pc' = "loop"
    /\ Bootstrap(d)
    /\ calls' = calls + 1
    /\ UNCHANGED <<ret, thr, outFile, declared, slept, startFailed, cacheVars>>

\* A direct call of synthesize_speech_fixed with budget n and directory d.
Call(n, d) ==
    /\ CallEffect(n, d)
    /\ UNCHANGED storeVars

\* voice_tts.py:157-158,231-236 - next iteration of range(max_retries):
\* record retry_count, create and start the worker, begin the bounded wait.
LaunchAttempt ==
    /\ pc = "loop"
    /\ retry \in LoopRange
    /\ result' = [result EXCEPT !.retry_count = retry]
    /\ thr' = [thr EXCEPT ![retry] = [st |-> "start", role |-> "worker",
                                      dir |-> model_dir, h |-> NoHandle, e |-> ErrNone]]
    /\ pc' = "join"
    /\ UNCHANGED <<max_retries, model_dir, retry, ret, outFile, declared, slept,
                   startFailed, cacheVars, storeVars, bootVars>>

\* voice_tts.py:157-158,233-235,269-270 - thread creation or start raises.
ThreadStartFails ==
    /\ pc = "loop"
    /\ retry \in LoopRange
    /\ result' = [result EXCEPT !.retry_count = retry]
    /\ startFailed' = TRUE
    /\ pc' = "except"
    /\ UNCHANGED <<max_retries, model_dir, retry, ret, thr, outFile, declared,
                   slept, cacheVars, storeVars, bootVars>>

\* voice_tts.py:271-277 - the except branch of the loop body.
HandleStartError ==
    /\ pc = "except"
    /\ IF IsLastRetry
       THEN /\ result' = [result EXCEPT !.error = ErrThread]
            /\ ReturnResult(result')
       ELSE /\ pc' = "sleep"
            /\ UNCHANGED <<result, ret>>
    /\ UNCHANGED <<max_retries, model_dir, retry, thr, outFile, declared, slept,
                   startFailed, cacheVars, storeVars, bootVars>>

\* voice_tts.py:157,279 - range(max_retries) is exhausted: return result.
LoopExit ==
    /\ pc = "loop"
    /\ retry \notin LoopRange
    /\ ReturnResult(result)
    /\ UNCHANGED <<max_retries, model_dir, retry, result, thr, outFile, declared,
                   slept, startFailed, cacheVars, storeVars, bootVars>>

\* Mutant: thread.join() without a timeout returns only when the worker ends.
JoinWithoutTimeout == ~IsAlive(retry)

\* voice_tts.py:236 - thread.join(timeout=timeout) returns: the worker has
\* ended, or the deadline has passed with the worker still running.
JoinGuard == TRUE

JoinReturns ==
    /\ pc = "join"
    /\ JoinGuard
    /\ pc' = "alive"
    /\ UNCHANGED <<max_retries, model_dir, retry, result, ret, thr, outFile,
                   declared, slept, startFailed, cacheVars, storeVars, bootVars>>

\* voice_tts.py:239 - if thread.is_alive()
CheckAlive ==
    /\ pc = "alive"
    /\ IF IsAlive(retry)
       THEN /\ pc' = "set_timed_out"
            /\ declared' = declared \cup {retry}
       ELSE /\ pc' = "chk_success"
            /\ UNCHANGED declared
    /\ UNCHANGED <<max_retries, model_dir, retry, result, ret, thr, outFile,
                   slept, startFailed, cacheVars, storeVars, bootVars>>

\* voice_tts.py:240
SetTimedOut ==
    /\ pc = "set_timed_out"
    /\ result' = [result EXCEPT !.timed_out = TRUE]
    /\ pc' = "set_timeout_error"
    /\ UNCHANGED <<max_retries, model_dir, retry, ret, thr, outFile, declared,
                   slept, startFailed, cacheVars, storeVars, bootVars>>

\* voice_tts.py:241-252 - record the timeout error; on the last retry return,
\* otherwise back off.
SetTimeoutError ==
    /\ pc = "set_timeout_error"
    /\ result' = [result EXCEPT !.error = ErrTimeout]
    /\ IF IsLastRetry
       THEN ReturnResult(result')
       ELSE /\ pc' = "sleep"
            /\ UNCHANGED ret
    /\ UNCHANGED <<max_retries, model_dir, retry, thr, outFile, declared, slept,
                   startFailed, cacheVars, storeVars, bootVars>>

\* Python truthiness of result.get('error').
Truthy(e) == e \notin {ErrNone, ErrEmpty}

\* The end of the loop body: the next value of range(max_retries).
NextIteration ==
    /\ retry' = retry + 1
    /\ pc' = "loop"

\* voice_tts.py:255 - first operand: result['success'].
CheckSuccess ==
    /\ pc = "chk_success"
    /\ pc' = IF result.success THEN "chk_success2" ELSE "chk_error"
    /\ UNCHANGED <<max_retries, model_dir, retry, result, ret, thr, outFile,
                   declared, slept, startFailed, cacheVars, storeVars, bootVars>>

\* voice_tts.py:255 - second operand: not thread.is_alive() and not
\* result.get('error'); when it is false the loop body ends here, with no sleep.
CheckError ==
    /\ pc = "chk_error"
    /\ IF ~IsAlive(retry) /\ ~Truthy(result.error)
       THEN /\ pc' = "chk_success2"
            /\ UNCHANGED retry
       ELSE NextIteration
    /\ UNCHANGED <<max_retries, model_dir, result, ret, thr, outFile, declared,
                   slept, startFailed, cacheVars, storeVars, bootVars>>

\* voice_tts.py:257-267 - success: break; ended without success: break on the
\* last retry, otherwise sleep and continue.
CheckSuccessAgain ==
    /\ pc = "chk_success2"
    /\ IF result.success \/ IsLastRetry
       THEN ReturnResult(result)
       ELSE /\ pc' = "sleep"
            /\ UNCHANGED ret
    /\ UNCHANGED <<max_retries, model_dir, retry, result, thr, outFile, declared,
                   slept, startFailed, cacheVars, storeVars, bootVars>>

\* voice_tts.py:251-252,266-267,276-277 - time.sleep(1); continue
Sleep ==
    /\ pc = "sleep"
    /\ slept' = slept + 1
    /\ NextIteration
    /\ UNCHANGED <<max_retries, model_dir, result, ret, thr, outFile, declared,
                   startFailed, cacheVars, storeVars, bootVars>>

\* The steps of the calling thread once the call is made.
CallerStep ==
    \/ LaunchAttempt
    \/ HandleStartError
    \/ LoopExit
    \/ JoinReturns
    \/ CheckAlive
    \/ SetTimedOut
    \/ SetTimeoutError
    \/ CheckSuccess
    \/ CheckError
    \/ CheckSuccessAgain
    \/ Sleep

\* ----------------------------------------------------- VoiceOutputManager
\* Characters a text is made of: the brackets the two patterns name, the
\* closing square bracket, whitespace and any other character.
\* voice_output_manager.py:148 - the class of r'^[（[(\(]*$' ("FW(" is the
\* full-width bracket).
OpenChars == {"(", "FW(", "["}
\* voice_output_manager.py:154 - the class of r'^[）)\)]*$'.
CloseChars == {")", "FW)"}
Space == " "
Chars == OpenChars \cup CloseChars \cup {"]", Space, "a"}

Texts == UNION {[1 .. n -> Chars] : n \in 0 .. MaxLen}

\* str.strip(): drop leading and trailing whitespace.
RECURSIVE LStrip(_)
LStrip(s) == IF s # << >> /\ Head(s) = Space THEN LStrip(Tail(s)) ELSE s
RECURSIVE RStrip(_)
RStrip(s) ==
    IF s # << >> /\ s[Len(s)] = Space THEN RStrip(SubSeq(s, 1, Len(s) - 1)) ELSE s
Strip(s) == RStrip(LStrip(s))

\* re.match(r'^[...]*$', s): every character of s is in the class; the
\* empty string matches.
MatchesClass(s, class) == \A i \in 1 .. Len(s) : s[i] \in class

\* Outcomes of _save_state: written; failed before the file was opened;
\* failed after open(..., 'w') truncated it.
SaveOutcomes == {"ok", "fail", "fail_truncated"}

\* Mutant: _save_state never writes.
SaveFileNever(f, en, o) == f

\* voice_output_manager.py:54-73 - the file after _save_state with state
\* 'enabled' = en and outcome o.
SaveFile(f, en, o) ==
    IF o = "ok" THEN (IF en THEN "on" ELSE "off")
    ELSE IF o = "fail_truncated" THEN "corrupt"
    ELSE f

\* The store after an operation that left it alone.
Untouched(en, f) == [enabled |-> en, file |-> f, ret |-> TRUE, saved |-> FALSE]

\* Mutant: enable() sets and saves the state without testing it first.
EnableAlwaysWrites(en, f, o) ==
    [enabled |-> TRUE, file |-> SaveFile(f, TRUE, o), ret |-> (o = "ok"),
     saved |-> TRUE]

\* voice_output_manager.py:84-97 - enable(): the store afterwards, the value
\* returned and whether _save_state was called.
EnableEffect(en, f, o) ==
    IF ~en
    THEN [enabled |-> TRUE, file |-> SaveFile(f, TRUE, o), ret |-> (o = "ok"),
          saved |-> TRUE]
    ELSE Untouched(en, f)

\* Mutant: disable() returns True whatever _save_state returned.
DisableReportsTrue(en, f, o) ==
    IF en
    THEN [enabled |-> FALSE, file |-> SaveFile(f, FALSE, o), ret |-> TRUE,
          saved |-> TRUE]
    ELSE Untouched(en, f)

\* voice_output_manager.py:99-112 - disable().
DisableEffect(en, f, o) ==
    IF en
    THEN [enabled |-> FALSE, file |-> SaveFile(f, FALSE, o), ret |-> (o = "ok"),
          saved |-> TRUE]
    ELSE Untouched(en, f)

\* voice_output_manager.py:114-131 - toggle(): returns the new state.
ToggleEffect(en, f, o) ==
    [enabled |-> ~en, file |-> SaveFile(f, ~en, o), ret |-> ~en, saved |-> TRUE]

\* voice_output_manager.py:145-160 - what parse_command makes of a text: the
\* command it sees, if any, and the string it returns.
Classify(text) ==
    LET original_text == Strip(text) IN
    IF MatchesClass(original_text, OpenChars)
    THEN [text |-> << >>, action |-> "enable"]
    ELSE IF MatchesClass(original_text, CloseChars)
    THEN [text |-> << >>, action |-> "disable"]
    ELSE [text |-> original_text, action |-> "none"]

\* Classify, tabulated over the texts of the model.
ParseTable == [text \in Texts |-> Classify(text)]

\* voice_output_manager.py:133-160 - parse_command(text): the string it
\* returns (a str, not a record) and its effect on the store.
ParseEffect(text, en, f, o) ==
    LET c == ParseTable[text] IN
    [text |-> c.text, action |-> c.action,
     store |-> CASE c.action = "enable" -> EnableEffect(en, f, o)
                 [] c.action = "disable" -> DisableEffect(en, f, o)
                 [] OTHER -> Untouched(en, f)]

BoolStr(b) == IF b THEN "True" ELSE "False"

\* What the next operation remembers of the one before it.
PrevOf(o) == IF o.name \in {"enable", "disable"} THEN o.name ELSE "none"

\* The record of a finished public operation.
OpDone(name, outcome, value, text, saved) ==
    [name |-> name, outcome |-> outcome, value |-> value, text |-> text,
     saved |-> saved]

StoreStep(name, eff) ==
    /\ enabled' = eff.enabled
    /\ file' = eff.file
    /\ op' = OpDone(name, "returned", BoolStr(eff.ret), << >>, eff.saved)
    /\ prev' = PrevOf(op)
    /\ UNCHANGED <<input, callVars, thr, cacheVars, bootVars>>

Enable(o) == StoreStep("enable", EnableEffect(enabled, file, o))
Disable(o) == StoreStep("disable", DisableEffect(enabled, file, o))
Toggle(o) == StoreStep("toggle", ToggleEffect(enabled, file, o))

ParseCommand(o) ==
    LET r == ParseEffect(input, enabled, file, o) IN
    /\ enabled' = r.store.enabled
    /\ file' = r.store.file
    /\ op' = OpDone("parse_command", "returned", "str", r.text, r.store.saved)
    /\ prev' = PrevOf(op)
    /\ UNCHANGED <<input, callVars, thr, cacheVars, bootVars>>

\* ------------------------------------------------------- VoiceConversation
\* voice_tts.py:100 - the default retry budget, which the orchestrator uses.
DefaultRetries == 3
\* voice_integration.py:59 - self.model_dir, fixed when the orchestrator is built.
OrchModelDir == "dirA"

\* What transcribe_audio can report: the audio file is missing
\* (voice_asr.py:49-58), Whisper raises and the exception is caught
\* (voice_asr.py:104-106), or a text is recognised (voice_asr.py:86-102).
AsrOutcomes == {"missing", "asr_error", "ok"}

\* Mutant: transcribe parses the text for commands whatever transcribe_audio
\* reported.
TranscribeParsesAlways(a, text, en, f, o) ==
    LET r == ParseEffect(Strip(text), en, f, o) IN
    [outcome |-> "raised", value |-> "TypeError", store |-> r.store]

\* voice_integration.py:86-99 - transcribe(): on a failure the result of
\* transcribe_audio is returned; on a success parse_command runs on the
\* stripped text and the str it returns is then subscripted with 'text',
\* which raises TypeError.
TranscribeEffect(a, text, en, f, o) ==
    IF a = "ok"
    THEN LET r == ParseEffect(Strip(text), en, f, o) IN
         [outcome |-> "raised", value |-> "TypeError", store |-> r.store]
    ELSE [outcome |-> "returned",
          value |-> (IF a = "missing" THEN "file_not_found" ELSE "asr_error"),
          store |-> Untouched(en, f)]

Transcribe(a, o) ==
    LET r == TranscribeEffect(a, input, enabled, file, o) IN
    /\ enabled' = r.store.enabled
    /\ file' = r.store.file
    /\ op' = OpDone("transcribe", r.outcome, r.value, << >>, r.store.saved)
    /\ prev' = PrevOf(op)
    /\ UNCHANGED <<input, callVars, thr, cacheVars, bootVars>>

\* voice_integration.py:172-176 - respond_speech(): parse_command runs, then
\* parse_result['text'] on the returned str raises TypeError; nothing below
\* line 174 is reached.
RespondSpeech(o) ==
    LET r == ParseEffect(input, enabled, file, o) IN
    /\ enabled' = r.store.enabled
    /\ file' = r.store.file
    /\ op' = OpDone("respond_speech", "raised", "TypeError", << >>, r.store.saved)
    /\ prev' = PrevOf(op)
    /\ UNCHANGED <<input, callVars, thr, cacheVars, bootVars>>

\* voice_integration.py:288-303 - conversation_flow(): transcribe; a failed
\* transcription returns the initial result; the exception of a successful
\* one is not caught, so respond_speech (line 327) is never reached.
ConversationFlow(a, o) ==
    LET r == TranscribeEffect(a, input, enabled, file, o) IN
    /\ enabled' = r.store.enabled
    /\ file' = r.store.file
    /\ op' = OpDone("conversation_flow", r.outcome,
                    (IF r.outcome = "raised" THEN r.value ELSE "transcription_failed"),
                    << >>, r.store.saved)
    /\ prev' = PrevOf(op)
    /\ UNCHANGED <<input, callVars, thr, cacheVars, bootVars>>

\* voice_integration.py:191-193 - max_safe_chars = int(50 / 1.5), the ceiling
\* respond_speech would truncate at; the lines that use it are below line 174.
MaxSafeChars == 33

\* Mutant: synthesize does not look at the toggle.
SynthesizeIgnoresToggle(force) ==
    /\ CallEffect(DefaultRetries, OrchModelDir)
    /\ op' = OpDone("synthesize", "in_invoker", "none", << >>, FALSE)
    /\ prev' = PrevOf(op)
    /\ UNCHANGED <<enabled, file, input>>

\* voice_integration.py:122-144 - synthesize(): without force and with the
\* toggle off, the 'voice_output_disabled' result; otherwise the call of
\* synthesize_speech with the default budget, whose steps are the invoker's.
Synthesize(force) ==
    /\ IF ~force /\ ~enabled
       THEN /\ op' = OpDone("synthesize", "returned", "voice_output_disabled",
                            << >>, FALSE)
            /\ UNCHANGED <<callVars, thr, cacheVars, bootVars>>
       ELSE /\ CallEffect(DefaultRetries, OrchModelDir)
            /\ op' = OpDone("synthesize", "in_invoker", "none", << >>, FALSE)
    /\ prev' = PrevOf(op)
    /\ UNCHANGED <<enabled, file, input>>

\* voice_integration.py:200 - the marker appended to a truncated text.
Marker == <<".", ".", ".">>

\* voice_integration.py:195-200 - the text respond_speech passes on: the
\* first max_safe_chars characters and the marker when the text is longer
\* than max_safe_chars, else the text.
TruncateText(processed_text) ==
    IF Len(processed_text) > MaxSafeChars
    THEN SubSeq(processed_text, 1, MaxSafeChars) \o Marker
    ELSE processed_text

\* voice_integration.py:186-208 - the branch of respond_speech for a
\* processed text that is not blank: truncate, then self.synthesize(...) with
\* the truncated text (lines 122-144). The branch needs parse_result to be a
\* record; after the str that parse_command returns, line 174 raises first.
SynthesizeProcessed(force) ==
    /\ Strip(input) # << >>
    /\ LET processed_text == TruncateText(input) IN
       IF ~force /\ ~enabled
       THEN /\ op' = OpDone("respond_speech", "returned", "voice_output_disabled",
                            processed_text, FALSE)
            /\ UNCHANGED <<callVars, thr, cacheVars, bootVars>>
       ELSE /\ CallEffect(DefaultRetries, OrchModelDir)
            /\ op' = OpDone("respond_speech", "in_invoker", "none",
                            processed_text, FALSE)
    /\ prev' = PrevOf(op)
    /\ UNCHANGED <<enabled, file, input>>

\* ------------------------------------------------------------------ specs
\* The cache as earlier calls of the process can have left it.
InitCache ==
    /\ lock = Free
    /\ ctorCalls = 0
    /\ \/ inst = NoHandle /\ inst_dir = NoDir /\ built = << >>
       \/ \E d \in Dirs : inst = 1 /\ inst_dir = d /\ built = <<d>>

InitCall ==
    /\ pc = "idle"
    /\ max_retries = 0
    /\ model_dir = NoDir
    /\ retry = 0
    /\ result = InitResult
    /\ ret = NoRet
    /\ outFile = 0
    /\ declared = {}
    /\ slept = 0
    /\ startFailed = FALSE

\* No reference audio file exists yet and no call was made.
InitRefs ==
    /\ refs = [d \in Dirs |-> "absent"]
    /\ refWrites = [d \in Dirs |-> 0]
    /\ calls = 0

\* voice_output_manager.py:34-52 - _load_state: the file's 'enabled', or the
\* default False when the file is absent or cannot be parsed.
LoadState(f) == f = "on"

NoOp == [name |-> "none", outcome |-> "none", value |-> "none", text |-> << >>,
         saved |-> FALSE]

\* voice_output_manager.py:19-32 - a store constructed from the file.
InitStore ==
    /\ file \in {"absent", "corrupt", "on", "off"}
    /\ enabled = LoadState(file)
    /\ input \in Texts
    /\ op = NoOp
    /\ prev = NoOp.name

\* The toggle store takes no part in a direct synthesis call.
IdleStore ==
    /\ file = "absent"
    /\ enabled = LoadState(file)
    /\ input = << >>
    /\ op = NoOp
    /\ prev = NoOp.name

InitTTS ==
    /\ InitCall
    /\ InitRefs
    /\ InitCache
    /\ IdleStore
    /\ thr = [t \in Workers |-> IdleThread]

NextTTS ==
    \/ \E n \in 0 .. MaxRetries, d \in Dirs : Call(n, d)
    \/ LaunchAttempt
    \/ ThreadStartFails
    \/ HandleStartError
    \/ LoopExit
    \/ JoinReturns
    \/ CheckAlive
    \/ SetTimedOut
    \/ SetTimeoutError
    \/ CheckSuccess
    \/ CheckError
    \/ CheckSuccessAgain
    \/ Sleep
    \/ \E t \in Workers : AcquireLock(t)
    \/ \E t \in Workers : CtorOk(t)
    \/ \E t \in Workers, m \in EngineMsgs : CtorRaises(t, m)
    \/ \E t \in Workers : CtorHangs(t)
    \/ \E t \in Workers : InferOk(t)
    \/ \E t \in Workers : InferNoChunk(t)
    \/ \E t \in Workers, m \in EngineMsgs : InferRaises(t, m)
    \/ \E t \in Workers : InferHangs(t)
    \/ \E t \in Workers : WriteDuration(t)
    \/ \E t \in Workers : WriteSuccess(t)
    \/ \E t \in Workers : WriteNotTimedOut(t)
    \/ \E t \in Workers : WriteError(t)
    \/ \E t \in Workers : WriteFailure(t)

\* One synthesize_speech_fixed call with its workers, any engine behaviour.
SpecTTS == InitTTS /\ [][NextTTS]_vars


\* voice_tts.py:55-68 - a thread calls _get_cosyvoice_instance(d).
Request(t, d) ==
    /\ thr[t].st = "none"
    /\ thr' = [thr EXCEPT ![t] = [st |-> "start", role |-> "requester",
                                  dir |-> d, h |-> NoHandle, e |-> ErrNone]]
    /\ UNCHANGED <<callVars, cacheVars, storeVars, bootVars>>

InitCacheSpec ==
    /\ InitCall
    /\ InitRefs
    /\ InitCache
    /\ IdleStore
    /\ thr = [t \in Requesters |-> IdleThread]

NextCache ==
    \/ \E t \in Requesters, d \in Dirs : Request(t, d)
    \/ \E t \in Requesters : AcquireLock(t)
    \/ \E t \in Requesters : CtorOk(t)
    \/ \E t \in Requesters, m \in EngineMsgs : CtorRaises(t, m)
    \/ \E t \in Requesters : CtorHangs(t)

\* Threads requesting the engine handle, each once, for any directories.
SpecCache == InitCacheSpec /\ [][NextCache]_vars


\* A process that has built its store and orchestrator and no engine yet.
InitCore ==
    /\ InitCall
    /\ InitRefs
    /\ lock = Free /\ ctorCalls = 0
    /\ inst = NoHandle /\ inst_dir = NoDir /\ built = << >>
    /\ InitStore
    /\ thr = [t \in Workers |-> IdleThread]

NextCore ==
    \/ \E o \in SaveOutcomes : Enable(o)
    \/ \E o \in SaveOutcomes : Disable(o)
    \/ \E o \in SaveOutcomes : Toggle(o)
    \/ \E o \in SaveOutcomes : ParseCommand(o)
    \/ \E a \in AsrOutcomes, o \in SaveOutcomes : Transcribe(a, o)
    \/ \E o \in SaveOutcomes : RespondSpeech(o)
    \/ \E a \in AsrOutcomes, o \in SaveOutcomes : ConversationFlow(a, o)
    \/ \E force \in BOOLEAN : Synthesize(force)

\* The toggle store and the orchestrator's public operations, up to the
\* hand-over to the synthesis invoker.
SpecCore == InitCore /\ [][NextCore]_vars

\* The call has returned and none of its workers is running any more: the
\* program calls synthesize_speech_fixed again.
CallReturned ==
    /\ pc = "returned"
    /\ calls < MaxCalls
    /\ \A t \in Workers : ~IsAlive(t)
    /\ pc' = "idle"
    /\ thr' = [t \in Workers |-> IdleThread]
    /\ retry' = 0
    /\ result' = InitResult
    /\ ret' = NoRet
    /\ outFile' = 0
    /\ declared' = {}
    /\ slept' = 0
    /\ startFailed' = FALSE
    /\ UNCHANGED <<max_retries, model_dir, cacheVars, storeVars, bootVars>>

\* Budgets of the calls that follow one another: no attempt, or one. The
\* bootstrap runs before the retry loop and does not read the budget; a call
\* with one attempt never backs off.
BootBudgets == {0, 1}

InitBoot ==
    /\ InitCall
    /\ lock = Free /\ ctorCalls = 0
    /\ inst = NoHandle /\ inst_dir = NoDir /\ built = << >>
    /\ IdleStore
    /\ thr = [t \in Workers |-> IdleThread]
    /\ refs \in [Dirs -> {"absent", "present"}]
    /\ refWrites = [d \in Dirs |-> 0]
    /\ calls = 0

NextBoot ==
    \/ \E n \in BootBudgets, d \in Dirs : Call(n, d)
    \/ CallReturned
    \/ LaunchAttempt
    \/ ThreadStartFails
    \/ HandleStartError
    \/ LoopExit
    \/ JoinReturns
    \/ CheckAlive
    \/ SetTimedOut
    \/ SetTimeoutError
    \/ CheckSuccess
    \/ CheckError
    \/ CheckSuccessAgain
    \/ \E t \in Workers : AcquireLock(t)
    \/ \E t \in Workers : CtorOk(t)
    \/ \E t \in Workers, m \in EngineMsgs : CtorRaises(t, m)
    \/ \E t \in Workers : CtorHangs(t)
    \/ \E t \in Workers : InferOk(t)
    \/ \E t \in Workers : InferNoChunk(t)
    \/ \E t \in Workers, m \in EngineMsgs : InferRaises(t, m)
    \/ \E t \in Workers : InferHangs(t)
    \/ \E t \in Workers : WriteDuration(t)
    \/ \E t \in Workers : WriteSuccess(t)
    \/ \E t \in Workers : WriteNotTimedOut(t)
    \/ \E t \in Workers : WriteError(t)
    \/ \E t \in Workers : WriteFailure(t)

\* Calls of synthesize_speech_fixed one after the other, each with its workers.
SpecBoot == InitBoot /\ [][NextBoot]_vars

\* Processed texts of every length up to a few characters over the ceiling.
LongTexts == {[i \in 1 .. n |-> "a"] : n \in 1 .. (MaxSafeChars + MaxLen + 1)}

InitTrunc ==
    /\ InitCall
    /\ InitRefs
    /\ lock = Free /\ ctorCalls = 0
    /\ inst = NoHandle /\ inst_dir = NoDir /\ built = << >>
    /\ file \in {"absent", "corrupt", "on", "off"}
    /\ enabled = LoadState(file)
    /\ input \in LongTexts
    /\ op = NoOp
    /\ prev = NoOp.name
    /\ thr = [t \in Workers |-> IdleThread]

NextTrunc == \E force \in BOOLEAN : SynthesizeProcessed(force)

\* The truncation step of respond_speech and its hand-over to synthesize.
SpecTrunc == InitTrunc /\ [][NextTrunc]_vars

NextStoreOk ==
    \/ Enable("ok")
    \/ Disable("ok")
    \/ Toggle("ok")
    \/ ParseCommand("ok")

\* One toggle store used through its own operations, no write failing.
SpecStoreOk == InitCore /\ [][NextStoreOk]_vars

\* The calling thread is scheduled and its wait and its sleep are bounded;
\* nothing is assumed of the workers or of the engine.
FairSpecTTS == SpecTTS /\ WF_vars(CallerStep)

\* ================================================================= claims
Launched == {t \in DOMAIN thr : thr[t].st # "none"}
Returned == pc = "returned"
RaisedStates == {"exc", "e_err", "done_exc"}

\* C1 - the result synthesize returns never has success = true and
\* timed_out = true at the same time.
C1_NeverSuccessAndTimedOut ==
    Returned => ~(ret.success /\ ret.timed_out)

\* C2 - a worker whose attempt was declared timed out is discarded: none of
\* its later steps changes a field of the result or writes the output file.
C2_TimedOutWorkerDiscarded ==
    [][\A t \in declared :
          thr'[t] # thr[t] => (result' = result /\ outFile' = outFile)]_vars

\* C3 - attempts of one call are strictly sequential: never are two workers
\* of the call inside the engine's inference at the same time.
C3_AttemptsSequential ==
    Cardinality({t \in Workers : thr[t].st = "infer"}) <= 1

\* C4 - every returned result is exactly one of: success with the output
\* written, or failure with a populated (non-null) error.
C4_SuccessXorError ==
    Returned =>
        \/ ret.success /\ outFile # 0
        \/ ~ret.success /\ ret.error # ErrNone

\* C5 (as claimed) - retry_count never exceeds retryBudget - 1, for every
\* budget that is a non-negative integer.
C5_RetryCountBelowBudget ==
    Returned => ret.retry_count <= max_retries - 1

\* C5 (amended) - for a budget of at least 1 the returned retry_count never
\* exceeds budget - 1; for a budget of 0 no attempt is made and it is 0.
C5_RetryCountBounded ==
    /\ max_retries >= 1 => result.retry_count <= max_retries - 1
    /\ max_retries = 0 => result.retry_count = 0 /\ Launched = {}
    /\ Returned => ret.retry_count = result.retry_count

C5_Witness ==
    /\ Returned
    /\ max_retries = MaxRetries
    /\ Cardinality(Launched) = max_retries
    /\ ret.retry_count = max_retries - 1
    /\ ret.retry_count >= 1

\* Every attempt of the call was started and its worker raised (in the
\* constructor or in inference), before or after its deadline.
EngineAlwaysRaised ==
    /\ ~startFailed
    /\ \A t \in Launched : thr[t].st \in RaisedStates

\* C6 - with an engine that always raises and a budget N >= 1, synthesize
\* launches exactly N attempts and returns success = false, retry_count = N - 1.
C6_AlwaysRaisingEngine ==
    Returned /\ max_retries >= 1 /\ EngineAlwaysRaised =>
        /\ Cardinality(Launched) = max_retries
        /\ ~ret.success
        /\ ret.retry_count = max_retries - 1

C6_Witness ==
    /\ Returned
    /\ max_retries = MaxRetries
    /\ max_retries >= 2
    /\ ~startFailed
    /\ \A t \in Workers : thr[t].st = "done_exc"
    /\ ~ret.success
    /\ ret.retry_count = max_retries - 1

\* A worker that will never finish: hung in inference or in the constructor,
\* or waiting for the lock a hung constructor holds.
Stuck(t) ==
    \/ thr[t].st \in {"hung", "ctor_hung"}
    \/ thr[t].st = "start" /\ lock # Free /\ thr[lock].st = "ctor_hung"

EngineHangsForever ==
    /\ ~startFailed
    /\ \A t \in Launched : Stuck(t)

\* C7 - synthesize always eventually returns, whatever the engine does; with
\* an engine that hangs forever and a budget N >= 1 it makes exactly N
\* attempts, each ended by its deadline, backs off only between attempts and
\* returns timed_out = true, success = false.
C7_AlwaysReturns ==
    /\ (pc # "idle") ~> Returned
    /\ [](Returned /\ max_retries >= 1 /\ EngineHangsForever =>
            /\ Cardinality(Launched) = max_retries
            /\ declared = Launched
            /\ slept = max_retries - 1
            /\ ret.timed_out
            /\ ~ret.success)

C7_Witness ==
    /\ Returned
    /\ max_retries = MaxRetries
    /\ max_retries >= 2
    /\ EngineHangsForever
    /\ \E t \in Workers : thr[t].st = "ctor_hung"
    /\ \E t \in Workers : thr[t].st = "start"
    /\ ret.timed_out

\* Handles ever constructed for directory d.
HandlesFor(d) == {h \in DOMAIN built : built[h] = d}

\* C8 (as claimed) - a request for a directory for which a handle was already
\* constructed constructs nothing, also after requests for other directories.
C8_NeverRebuilt ==
    \A t \in DOMAIN thr :
        thr[t].st = "ctor" => HandlesFor(thr[t].dir) = {}

\* C8 (amended) - the cache holds at most one handle, the most recently
\* constructed one, under its directory; a request for that directory returns
\* the cached handle and constructs nothing; a request for any other
\* directory constructs a handle for it, which replaces the cached one.
C8_SingleSlotCache ==
    /\ inst # NoHandle => inst = Len(built) /\ built[inst] = inst_dir
    /\ inst = NoHandle => built = << >>
    /\ \A t \in DOMAIN thr :
        /\ thr[t].st = "ctor" => ~(inst # NoHandle /\ inst_dir = thr[t].dir)
        /\ thr[t].st \in {"got", "infer"} =>
              /\ thr[t].h \in DOMAIN built
              /\ built[thr[t].h] = thr[t].dir
    /\ Len(built) <= ctorCalls + 1

C8_Witness ==
    /\ Len(built) >= 3
    /\ built[1] = built[3]
    /\ built[2] # built[1]
    /\ \E t \in DOMAIN thr : thr[t].st = "got" /\ thr[t].h = 3
    /\ \E t \in DOMAIN thr : thr[t].st = "got" /\ thr[t].h = 1

\* Every thread that has requested a handle asked for the same directory.
SameDirRequested ==
    \A t, u \in Launched : thr[t].dir = thr[u].dir

\* C9 (as claimed) - when several threads request the handle of the same
\* directory, the constructor runs exactly once.
C9_ConstructorRunsOnce ==
    SameDirRequested /\ Cardinality(Launched) >= 2 => ctorCalls <= 1

\* C9 (amended) - when several threads request the handle of the same, not
\* yet cached directory, the constructor returns a handle at most once (a
\* constructor call that raises caches nothing, so the next requester calls
\* it again), never two constructor calls run at the same time, and every
\* requester that receives a handle receives the same one.
C9_SingleFlight ==
    /\ Cardinality({t \in DOMAIN thr : thr[t].st \in {"ctor", "ctor_hung"}}) <= 1
    /\ \A t \in DOMAIN thr : thr[t].st \in {"ctor", "ctor_hung"} => lock = t
    /\ SameDirRequested =>
          /\ \A d \in Dirs : (\E t \in Launched : thr[t].dir = d) =>
                                Cardinality(HandlesFor(d)) <= 1
          /\ \A t, u \in Launched :
                thr[t].st = "got" /\ thr[u].st = "got" => thr[t].h = thr[u].h

C9_Witness ==
    /\ inst_dir = "dirA"
    /\ built = <<"dirB", "dirA">>
    /\ \A t \in Requesters : thr[t].st = "got" /\ thr[t].dir = "dirA" /\ thr[t].h = 2
    /\ ctorCalls = 1


\* C10 - no public operation of the core ends in an uncaught exception
\* reaching its caller: every failure is a structured result.
C10_NoUncaughtException ==
    op.outcome # "raised"

\* C11 - on every branch respond_speech returns a result that carries
\* non-null text content.
C11_RespondSpeechCarriesText ==
    op.name = "respond_speech" =>
        /\ op.outcome = "returned"
        /\ op.value = "result_with_text"

\* C12 - synthesize with force false and the toggle off returns the failure
\* 'voice_output_disabled' and starts nothing in the invoker (no call, no
\* worker, no handle); with force true or the toggle on the invoker is called.
C12_DisabledShortCircuits ==
    [][\A force \in BOOLEAN :
          Synthesize(force) =>
              IF ~force /\ ~enabled
              THEN /\ op'.outcome = "returned"
                   /\ op'.value = "voice_output_disabled"
                   /\ UNCHANGED <<callVars, thr, cacheVars, bootVars>>
              ELSE /\ op'.outcome = "in_invoker"
                   /\ pc = "idle" /\ pc' = "loop"
                   /\ max_retries' = DefaultRetries
                   /\ result' = InitResult]_vars

C12_Witness ==
    /\ op.name = "synthesize"
    /\ op.value = "voice_output_disabled"
    /\ ~enabled
    /\ file = "on"
    /\ pc = "idle"
    /\ \A t \in DOMAIN thr : thr[t].st = "none"
    /\ built = << >>

\* C13 - respond_speech reports text_truncated = true (with the original
\* text) exactly for texts longer than the ceiling after command parsing, and
\* passes texts at or below the ceiling unmodified with text_truncated = false.
C13_TruncatesAboveCeiling ==
    op.name = "respond_speech" /\ ParseTable[input].text # << >> =>
        /\ op.outcome = "returned"
        /\ op.value = IF Len(ParseTable[input].text) > MaxSafeChars
                      THEN "text_truncated" ELSE "text_unmodified"

\* C14 - in conversation_flow a failed transcription (missing audio file or
\* transcription error) returns before respond_speech: the response is not
\* parsed, the toggle and its file are not touched, no synthesis is started.
C14_FailedTranscriptionShortCircuits ==
    [][\A a \in AsrOutcomes \ {"ok"}, o \in SaveOutcomes :
          ConversationFlow(a, o) =>
              /\ op'.outcome = "returned"
              /\ op'.value = "transcription_failed"
              /\ ~op'.saved
              /\ UNCHANGED <<enabled, file, callVars, thr, cacheVars, bootVars>>]_vars

C14_Witness ==
    /\ op.name = "conversation_flow"
    /\ op.value = "transcription_failed"
    /\ enabled
    /\ file = "on"
    /\ ParseTable[input].action = "disable"
    /\ input # << >>
    /\ pc = "idle"

\* The closing brackets the specification names: ")", its full-width variant
\* and "]".
NamedCloseChars == {")", "FW)", "]"}
Brackets == OpenChars \cup NamedCloseChars
NonEmptyOnly(s, class) == s # << >> /\ MatchesClass(s, class)

\* A text with at least one non-bracket character, or with both opening and
\* closing brackets.
PassesThrough(s) ==
    \/ \E i \in 1 .. Len(s) : s[i] \notin Brackets
    \/ /\ \E i \in 1 .. Len(s) : s[i] \in OpenChars
       /\ \E i \in 1 .. Len(s) : s[i] \in NamedCloseChars

\* C15 - for a text that after trimming is non-empty and made only of opening
\* brackets, parse_command calls enable and returns a record with text "",
\* action enable and voiceEnabled true, leaving the toggle enabled.
C15_OpenBracketsEnable ==
    op.name = "parse_command" /\ NonEmptyOnly(Strip(input), OpenChars) =>
        /\ op.outcome = "returned"
        /\ op.value = "record"
        /\ op.text = << >>
        /\ enabled

\* C16 - for a text that after trimming is non-empty and made only of the
\* closing brackets ")", full-width ")" and "]", parse_command calls disable,
\* leaves the toggle disabled and returns empty text.
C16_CloseBracketsDisable ==
    op.name = "parse_command" /\ NonEmptyOnly(Strip(input), NamedCloseChars) =>
        /\ op.outcome = "returned"
        /\ op.text = << >>
        /\ ~enabled

\* C17 - for a text with a non-bracket character or with mixed brackets,
\* parse_command returns the text unchanged and leaves the in-memory toggle
\* and the persisted file unchanged.
C17_OtherTextPassesThrough ==
    [][\A o \in SaveOutcomes :
          ParseCommand(o) /\ PassesThrough(input) =>
              /\ op'.text = input
              /\ ~op'.saved
              /\ enabled' = enabled
              /\ file' = file]_vars

\* C18 - enable() called right after enable() is a no-op: it writes nothing,
\* returns true and leaves the state and the file unchanged, so the two calls
\* make at most one persisted write; the same for disable() after disable().
C18_EnableIdempotent ==
    /\ [](prev = "enable" /\ op.name = "enable" =>
              ~op.saved /\ op.value = "True" /\ enabled)
    /\ [](prev = "disable" /\ op.name = "disable" =>
              ~op.saved /\ op.value = "True" /\ ~enabled)
    /\ [][\A o \in SaveOutcomes :
             \/ op.name = "enable" /\ Enable(o)
             \/ op.name = "disable" /\ Disable(o)
             => enabled' = enabled /\ file' = file]_vars

C18_Witness ==
    /\ prev = "enable"
    /\ op.name = "enable"
    /\ ~op.saved
    /\ op.value = "True"
    /\ enabled
    /\ file = "on"

\* C19 - when no write fails, after any sequence of enable, disable, toggle
\* and parse_command the file holds the in-memory value (a store constructed
\* from it reports the same is_enabled()), and an absent or unreadable file
\* loads as disabled.
C19_FileFollowsMemory ==
    /\ LoadState(file) = enabled
    /\ file \in {"absent", "corrupt"} => ~LoadState(file)
    /\ op.saved => file = (IF enabled THEN "on" ELSE "off")

C19_Witness ==
    /\ op.name = "parse_command"
    /\ op.saved
    /\ enabled
    /\ file = "on"
    /\ LoadState(file)

\* C20 - a failed write in enable() or disable() raises nothing and returns
\* false, leaves the requested value in memory and the previous content in
\* the file; after the next mutation whose write succeeds the file and the
\* memory agree again.
C20_FailedWriteKeepsFile ==
    /\ [][\A o \in SaveOutcomes \ {"ok"} :
             (Enable(o) \/ Disable(o)) /\ op'.saved =>
                 /\ op'.outcome = "returned"
                 /\ op'.value = "False"
                 /\ enabled' = (op'.name = "enable")
                 /\ file' = file]_vars
    /\ [][(Enable("ok") \/ Disable("ok") \/ Toggle("ok")) /\ op'.saved =>
             LoadState(file') = enabled']_vars

\* C21 - the reference-voice bootstrap is idempotent: over any sequence of
\* calls the placeholder of a path is written at most once, only when no
\* file is there, and an existing reference file is never overwritten.
C21_BootstrapIdempotent ==
    /\ [](\A d \in Dirs :
            /\ refWrites[d] <= 1
            /\ refs[d] = "present" => refWrites[d] = 0
            /\ refs[d] = "placeholder" <=> refWrites[d] = 1)
    /\ [][\A d \in Dirs :
            refs[d] # "absent" =>
                refs'[d] = refs[d] /\ refWrites'[d] = refWrites[d]]_vars

C21_Witness ==
    /\ calls = 2
    /\ pc = "returned"
    /\ \E d \in Dirs :
        /\ model_dir = d
        /\ refs[d] = "placeholder"
        /\ refWrites[d] = 1
        /\ \A e \in Dirs \ {d} : refs[e] = "absent"

\* Attempt t ended within its deadline by an exception of its worker (raised
\* by the engine, or for a missing audio chunk).
RaisedInTime(t) == thr[t].st = "done_exc" /\ t \notin declared

\* C22 - after an attempt whose worker ended with an exception, synthesize
\* sleeps the fixed backoff before it launches the next attempt, as it does
\* after a timed-out attempt; with no attempt left it returns the failure.
C22_BackoffAfterException ==
    /\ pc = "join" /\ retry >= 1 /\ (\A t \in 0 .. (retry - 1) : RaisedInTime(t))
           => slept = retry
    /\ Returned /\ max_retries >= 1 /\ ~startFailed
           /\ (\A t \in Launched : RaisedInTime(t))
           => ~ret.success /\ Cardinality(Launched) = max_retries

\* C23 - a failure result has timed_out = true exactly when the last attempt
\* made ended by deadline expiry; an earlier timed-out attempt followed by a
\* final attempt that raised gives timed_out = false.
C23_TimedOutMeansLastAttempt ==
    Returned /\ ~ret.success /\ ~startFailed /\ Launched # {} =>
        (ret.timed_out <=> ret.retry_count \in declared)

\* C24 - every result returned with success = true has error = None, also
\* when earlier attempts of the call raised or timed out.
C24_SuccessHasNoError ==
    Returned /\ ret.success => ret.error = ErrNone

\* C25 - parse_command on an empty or whitespace-only text is not a control
\* command: it changes neither the in-memory toggle nor the persisted file.
C25_EmptyTextIsNoCommand ==
    [][\A o \in SaveOutcomes :
          ParseCommand(o) /\ Strip(input) = << >> =>
              /\ ~op'.saved
              /\ enabled' = enabled
              /\ file' = file]_vars

\* C26 (as claimed) - whenever enable() returns true the persisted state is
\* enabled, and whenever disable() returns true it is disabled.
C26_TrueMeansPersisted ==
    /\ op.name = "enable" /\ op.value = "True" => LoadState(file)
    /\ op.name = "disable" /\ op.value = "True" => ~LoadState(file)

\* C26 (amended) - whenever enable() returns true the in-memory state is
\* enabled, and the persisted state is enabled too when the call wrote it or
\* when file and memory agreed before the call; the same for disable().
C26_TrueMeansInMemory ==
    /\ [](op.name = "enable" /\ op.value = "True" =>
              enabled /\ (op.saved => file = "on"))
    /\ [](op.name = "disable" /\ op.value = "True" =>
              ~enabled /\ (op.saved => file = "off"))
    /\ [][\A o \in SaveOutcomes :
             (Enable(o) \/ Disable(o)) /\ op'.value = "True"
                 /\ LoadState(file) = enabled
             => LoadState(file') = enabled']_vars

C26_Witness ==
    /\ op.name = "enable"
    /\ op.value = "True"
    /\ ~op.saved
    /\ enabled
    /\ file = "off"

====
